---- MODULE Spec2Model ----
(***************************************************************************)
(* A model of the SDMX structure-metadata model (sdmx_metadata.py) and of  *)
(* the raw extractor (sdmx_to_csv.py).                                     *)
(*                                                                         *)
(* Text is modelled as a sequence of one-character strings, so that        *)
(* str.strip() and the emptiness test "not code_level" are computed.       *)
(* A Python dict is a function whose DOMAIN is its key set.  The outcome   *)
(* of a call is a record [outcome, value]: "return" with a value, "none"   *)
(* for a returned None, "raise" for an exception leaving the call.         *)
(***************************************************************************)
EXTENDS Integers, Sequences, FiniteSets, TLC

----------------------------------------------------------------------------
(* Bounds of the explored inputs *)

\* number of Dimension/Attribute references inside the KeyFamily
MaxRefs == 2
\* number of Code children of a CodeList
MaxCodes == 2
\* number of elements the raw extractor parses
MaxElems == 4

----------------------------------------------------------------------------
(* Text and dict helpers *)

EmptyDict == [x \in {} |-> x]

Put(d, k, v) == [x \in (DOMAIN d) \cup {k} |-> IF x = k THEN v ELSE d[x]]

Range(s) == {s[i] : i \in DOMAIN s}

SeqsUpTo(S, n) == UNION {[1..k -> S] : k \in 0..n}

RECURSIVE LStrip(_)
LStrip(s) == IF s # <<>> /\ Head(s) = " " THEN LStrip(Tail(s)) ELSE s

RECURSIVE RStrip(_)
RStrip(s) ==
  IF s # <<>> /\ s[Len(s)] = " " THEN RStrip(SubSeq(s, 1, Len(s) - 1)) ELSE s

\* str.strip()
Strip(s) == RStrip(LStrip(s))

\* index of the first "}" of a tag, 0 when there is none
RECURSIVE FirstBrace(_, _)
FirstBrace(tag, i) ==
  IF i > Len(tag) THEN 0
  ELSE IF tag[i] = "}" THEN i ELSE FirstBrace(tag, i + 1)

\* SDMXMetadata.__remove_xml_namespace: tag_name.split('}', 1)[1]
RemoveXmlNamespace(tag) ==
  IF FirstBrace(tag, 1) = 0 THEN tag
  ELSE SubSeq(tag, FirstBrace(tag, 1) + 1, Len(tag))

----------------------------------------------------------------------------
(* The structure documents explored *)

NS == <<"{", "s", "}">>

ConceptCodes == {"SEX", "AGE", "OBS_VALUE"}
CodelistKeys == {"CL_SEX"}
Names == {"Sex", "Age"}

Ref(tag, code, has, key) ==
  [tag |-> tag, conceptRef |-> code, has_codelist |-> has, codelist |-> key]

\* a reference element of the KeyFamily, without or with a codelist attribute
PlainRefs == {Ref(NS \o <<"Dimension">>, c, FALSE, "") : c \in ConceptCodes}
KeyedRefs == {Ref(NS \o <<"Dimension">>, c, TRUE, k) :
                c \in ConceptCodes, k \in CodelistKeys}

\* the PrimaryMeasure element, as the last component of the KeyFamily
PrimaryPlain == Ref(NS \o <<"PrimaryMeasure">>, "OBS_VALUE", FALSE, "")
PrimaryKeyed == Ref(NS \o <<"PrimaryMeasure">>, "OBS_VALUE", TRUE, "CL_SEX")

ConceptDef(present, has_name, name) ==
  [present |-> present, has_name |-> has_name, name |-> name]

\* no Concept element, a Concept without Name, a Concept with a Name
ConceptDefs ==
  {ConceptDef(FALSE, FALSE, ""), ConceptDef(TRUE, FALSE, "")}
    \cup {ConceptDef(TRUE, TRUE, n) : n \in Names}

GoodConcepts ==
  [c \in ConceptCodes |->
     ConceptDef(TRUE, TRUE, IF c = "AGE" THEN "Age" ELSE "Sex")]

Code(value, has_description, description) ==
  [value |-> value, has_description |-> has_description,
   description |-> description]

CodeEntries ==
  { Code(<<"1">>, TRUE, <<"M">>),
    Code(<<"2">>, TRUE, <<" ", "F", " ">>),
    Code(<<"1">>, FALSE, <<>>) }

CodeListDef(present, has_name, codes) ==
  [present |-> present, has_name |-> has_name, codes |-> codes]

\* no CodeList element, one with no child, one with only a Name child,
\* one with Code children
CodeListDefs ==
  { CodeListDef(FALSE, FALSE, <<>>),
    CodeListDef(TRUE, FALSE, <<>>),
    CodeListDef(TRUE, TRUE, <<>>) }
    \cup {CodeListDef(TRUE, TRUE, cs) : cs \in SeqsUpTo(CodeEntries, MaxCodes) \ {<<>>}}

GoodCodeLists ==
  [k \in CodelistKeys |->
     CodeListDef(TRUE, TRUE,
       <<Code(<<"1">>, TRUE, <<"M">>), Code(<<"2">>, TRUE, <<" ", "F", " ">>)>>)]

Document(kf, outside, concepts, codelists) ==
  [key_family |-> kf, primary_outside |-> outside,
   concepts |-> concepts, codelists |-> codelists]

\* documents that vary the key family and the Concept definitions
NameDocuments ==
  { Document(refs \o pm, outside, cs, GoodCodeLists) :
      refs \in SeqsUpTo(PlainRefs, MaxRefs),
      pm \in {<<>>, <<PrimaryPlain>>},
      outside \in BOOLEAN,
      cs \in [ConceptCodes -> ConceptDefs] }

\* documents that vary the key family, its codelist keys and the CodeLists
LevelDocuments ==
  { Document(refs \o pm, outside, GoodConcepts, cl) :
      refs \in SeqsUpTo(PlainRefs \cup KeyedRefs, MaxRefs),
      pm \in {<<>>, <<PrimaryPlain>>, <<PrimaryKeyed>>},
      outside \in BOOLEAN,
      cl \in [CodelistKeys -> CodeListDefs] }

\* at most one PrimaryMeasure element per document
Documents ==
  {d \in NameDocuments \cup LevelDocuments :
     ~(d.primary_outside /\ \E i \in DOMAIN d.key_family :
          RemoveXmlNamespace(d.key_family[i].tag) = <<"PrimaryMeasure">>)}

\* arguments of the queries
QueryCodes == ConceptCodes
QueryLevels == {<<>>, <<"1">>, <<"2">>, <<" ", "1">>}

----------------------------------------------------------------------------
VARIABLES
  root,                          \* self.__root (the file before __load_xml)
  pc,                            \* position of SDMXMetadata.__init__
  primary_measure_code,
  concept_codes,
  concept_codelist_keys,
  concept_code_to_codelist_key,
  codelist_key_to_concept_code,
  concept_code_to_name,
  name_to_concept_code,
  code_levels,
  call,                          \* the query in progress and its outcome
  elems,                         \* sdmx_to_csv: the elements parsed so far
  rpc,                           \* sdmx_to_csv: position of the script
  row,
  row_array,                     \* ROWS
  ORDERED_KEY_DICT,              \* its keys, in insertion order
  output                         \* the CSV file written

vars == <<root, pc, primary_measure_code, concept_codes, concept_codelist_keys,
          concept_code_to_codelist_key, codelist_key_to_concept_code,
          concept_code_to_name, name_to_concept_code, code_levels, call,
          elems, rpc, row, row_array, ORDERED_KEY_DICT, output>>

rows_vars == <<elems, rpc, row, row_array, ORDERED_KEY_DICT, output>>

tables == <<primary_measure_code, concept_codes, concept_codelist_keys,
            concept_code_to_codelist_key, codelist_key_to_concept_code,
            concept_code_to_name, name_to_concept_code, code_levels>>

Unset == "<unset>"

NoCall == [op |-> "none", code |-> "", level |-> <<>>, trim |-> FALSE,
           name |-> "", outcome |-> "none", value |-> <<>>]

NoOutput == [status |-> "none", fieldnames |-> <<>>, rows |-> <<>>]

\* the raw extractor at rest (humanize_csv.py does not run it)
RowsIdle ==
  /\ elems = <<>>
  /\ rpc = "absent"
  /\ row = EmptyDict
  /\ row_array = <<>>
  /\ ORDERED_KEY_DICT = <<>>
  /\ output = NoOutput

Init ==
  /\ RowsIdle
  /\ root \in Documents
  /\ pc = "new"
  /\ primary_measure_code = Unset
  /\ concept_codes = <<>>
  /\ concept_codelist_keys = <<>>
  /\ concept_code_to_codelist_key = EmptyDict
  /\ codelist_key_to_concept_code = EmptyDict
  /\ concept_code_to_name = EmptyDict
  /\ name_to_concept_code = EmptyDict
  /\ code_levels = EmptyDict
  /\ call = NoCall

\* SDMXMetadata.__load_xml: every element's tag loses its namespace
LoadXml ==
  /\ pc = "new"
  /\ root' = [root EXCEPT !.key_family =
                [i \in DOMAIN root.key_family |->
                   [root.key_family[i] EXCEPT
                      !.tag = RemoveXmlNamespace(root.key_family[i].tag)]]]
  /\ pc' = "loaded"
  /\ UNCHANGED <<tables, call, rows_vars>>

----------------------------------------------------------------------------
(* Construction: the three passes of SDMXMetadata.__init__ *)

\* a lookup that tolerates a missing PrimaryMeasure element
FindPrimaryMeasureOrNone(r) ==
  LET inside == {i \in DOMAIN r.key_family :
                   r.key_family[i].tag = <<"PrimaryMeasure">>}
  IN  IF inside # {}
        THEN [found |-> TRUE,
              conceptRef |->
                r.key_family[CHOOSE i \in inside : \A j \in inside : i <= j].conceptRef]
      ELSE IF r.primary_outside
        THEN [found |-> TRUE, conceptRef |-> "OBS_VALUE"]
      ELSE [found |-> TRUE, conceptRef |-> Unset]

\* root.find('.//PrimaryMeasure'): the first such element of the document
FindPrimaryMeasure(r) ==
  LET inside == {i \in DOMAIN r.key_family :
                   r.key_family[i].tag = <<"PrimaryMeasure">>}
  IN  IF inside # {}
        THEN [found |-> TRUE,
              conceptRef |->
                r.key_family[CHOOSE i \in inside : \A j \in inside : i <= j].conceptRef]
      ELSE IF r.primary_outside
        THEN [found |-> TRUE, conceptRef |-> "OBS_VALUE"]
      ELSE [found |-> FALSE, conceptRef |-> Unset]

\* SDMXMetadata.__load_primary_measure; None.attrib raises
LoadPrimaryMeasure ==
  /\ pc = "loaded"
  /\ IF FindPrimaryMeasure(root).found
       THEN /\ primary_measure_code' = FindPrimaryMeasure(root).conceptRef
            /\ pc' = "primary"
       ELSE /\ primary_measure_code' = primary_measure_code
            /\ pc' = "failed"
  /\ UNCHANGED <<root, concept_codes, concept_codelist_keys,
                 concept_code_to_codelist_key, codelist_key_to_concept_code,
                 concept_code_to_name, name_to_concept_code, code_levels, call,
                 rows_vars>>

\* a scan that takes the Dimension elements only
KeyFamilyDimensions(r) ==
  SelectSeq(r.key_family, LAMBDA e : e.tag = <<"Dimension">>)

\* root.findall('.//KeyFamily//*[@conceptRef]'), in document order
KeyFamilyRefs(r) == r.key_family

\* first loop of __load_concepts, from element i on
RECURSIVE ScanRefs(_, _, _)
ScanRefs(refs, i, acc) ==
  IF i > Len(refs) THEN acc
  ELSE LET e == refs[i]
           withCode == [acc EXCEPT !.codes = Append(@, e.conceptRef)]
       IN  ScanRefs(refs, i + 1,
             IF e.has_codelist
               THEN [withCode EXCEPT
                       !.keys = Append(@, e.codelist),
                       !.code_to_key = Put(@, e.conceptRef, e.codelist),
                       !.key_to_code = Put(@, e.codelist, e.conceptRef)]
               ELSE withCode)

\* a second loop that fills the name index with key and value exchanged
RECURSIVE ScanNamesSwapped(_, _, _, _)
ScanNamesSwapped(r, codes, i, acc) ==
  IF i > Len(codes) THEN acc
  ELSE LET def == r.concepts[codes[i]]
       IN  IF def.present /\ def.has_name
             THEN ScanNamesSwapped(r, codes, i + 1,
                    [acc EXCEPT
                       !.code_to_name = Put(@, codes[i], def.name),
                       !.name_to_code = Put(@, codes[i], def.name)])
             ELSE [acc EXCEPT !.ok = FALSE]

\* second loop of __load_concepts, from code i on; find(...) returning None
\* makes .find('Name') or .text raise, which ends the loop where it stands
RECURSIVE ScanNames(_, _, _, _)
ScanNames(r, codes, i, acc) ==
  IF i > Len(codes) THEN acc
  ELSE LET def == r.concepts[codes[i]]
       IN  IF def.present /\ def.has_name
             THEN ScanNames(r, codes, i + 1,
                    [acc EXCEPT
                       !.code_to_name = Put(@, codes[i], def.name),
                       !.name_to_code = Put(@, def.name, codes[i])])
             ELSE [acc EXCEPT !.ok = FALSE]

\* SDMXMetadata.__load_concepts
LoadConcepts ==
  /\ pc = "primary"
  /\ LET scan == ScanRefs(KeyFamilyRefs(root), 1,
                   [codes |-> <<>>, keys |-> <<>>,
                    code_to_key |-> EmptyDict, key_to_code |-> EmptyDict])
         names == ScanNames(root, scan.codes, 1,
                    [ok |-> TRUE, code_to_name |-> EmptyDict,
                     name_to_code |-> EmptyDict])
     IN  /\ concept_codes' = scan.codes
         /\ concept_codelist_keys' = scan.keys
         /\ concept_code_to_codelist_key' = scan.code_to_key
         /\ codelist_key_to_concept_code' = scan.key_to_code
         /\ concept_code_to_name' = names.code_to_name
         /\ name_to_concept_code' = names.name_to_code
         /\ pc' = IF names.ok THEN "concepts" ELSE "failed"
  /\ UNCHANGED <<root, primary_measure_code, code_levels, call, rows_vars>>

\* "if code_list:": find() gave an element, and the element has a child
\* (an Element without children is false)
CodeListTruthy(cl) ==
  cl.present /\ (IF cl.has_name THEN 1 ELSE 0) + Len(cl.codes) > 0

\* inner loop of __load_code_levels over code_list.findall('Code');
\* a Code without Description makes .text raise
RECURSIVE ScanCodes(_, _, _)
ScanCodes(codes, i, acc) ==
  IF i > Len(codes) THEN acc
  ELSE IF codes[i].has_description
    THEN ScanCodes(codes, i + 1,
           [acc EXCEPT !.levels = Put(@, codes[i].value, codes[i].description)])
    ELSE [acc EXCEPT !.ok = FALSE]

\* outer loop of __load_code_levels, from key i on
RECURSIVE ScanCodeLists(_, _, _, _, _)
ScanCodeLists(r, keys, key_to_code, i, acc) ==
  IF i > Len(keys) THEN acc
  ELSE LET code_list == r.codelists[keys[i]]
           concept_code == key_to_code[keys[i]]
           inner == ScanCodes(code_list.codes, 1,
                              [ok |-> TRUE, levels |-> EmptyDict])
       IN  IF CodeListTruthy(code_list)
             THEN IF inner.ok
                    THEN ScanCodeLists(r, keys, key_to_code, i + 1,
                           [acc EXCEPT
                              !.levels = Put(@, concept_code, inner.levels)])
                    ELSE [ok |-> FALSE,
                          levels |-> Put(acc.levels, concept_code, inner.levels)]
             ELSE ScanCodeLists(r, keys, key_to_code, i + 1, acc)

\* SDMXMetadata.__load_code_levels
LoadCodeLevels ==
  /\ pc = "concepts"
  /\ LET scan == ScanCodeLists(root, concept_codelist_keys,
                   codelist_key_to_concept_code, 1,
                   [ok |-> TRUE, levels |-> EmptyDict])
     IN  /\ code_levels' = scan.levels
         /\ pc' = IF scan.ok THEN "ready" ELSE "failed"
  /\ UNCHANGED <<root, primary_measure_code, concept_codes,
                 concept_codelist_keys, concept_code_to_codelist_key,
                 codelist_key_to_concept_code, concept_code_to_name,
                 name_to_concept_code, call, rows_vars>>

----------------------------------------------------------------------------
(* The query interface.  A query is a call on the constructed instance:    *)
(* __init__ raising leaves no instance (humanize_csv.py binds the instance *)
(* only when the constructor returns), so queries run from "ready" only.   *)

Return(v) == [outcome |-> "return", value |-> v]
ReturnNone == [outcome |-> "none", value |-> <<>>]
Raise == [outcome |-> "raise", value |-> <<>>]

\* SDMXMetadata.is_primary_measure_code
is_primary_measure_code(code) == code = primary_measure_code

\* SDMXMetadata.codes
codes == concept_codes

\* SDMXMetadata.name_by_code; a missing key raises KeyError
name_by_code(code) ==
  IF code \in DOMAIN concept_code_to_name
    THEN Return(concept_code_to_name[code]) ELSE Raise

\* SDMXMetadata.code_by_name
code_by_name(name) ==
  IF name \in DOMAIN name_to_concept_code
    THEN Return(name_to_concept_code[name]) ELSE Raise

\* SDMXMetadata.code_levels_by_code
code_levels_by_code(code) ==
  IF is_primary_measure_code(code) THEN ReturnNone
  ELSE IF code \in DOMAIN code_levels THEN Return(code_levels[code])
  ELSE Raise

\* a lookup without the test of an empty code_level
description_without_empty_test(code, code_level, trim) ==
  IF is_primary_measure_code(code) THEN Return(code_level)
  ELSE IF code \notin DOMAIN code_levels THEN Raise
  ELSE IF code_level \notin DOMAIN code_levels[code] THEN Raise
  ELSE IF trim THEN Return(Strip(code_levels[code][code_level]))
  ELSE Return(code_levels[code][code_level])

\* a lookup that falls back to the coded value, as dict.get(k, k) would
description_with_fallback(code, code_level, trim) ==
  IF Len(code_level) = 0 THEN Return(code_level)
  ELSE IF is_primary_measure_code(code) THEN Return(code_level)
  ELSE IF code \notin DOMAIN code_levels THEN Raise
  ELSE IF code_level \notin DOMAIN code_levels[code] THEN Return(code_level)
  ELSE IF trim THEN Return(Strip(code_levels[code][code_level]))
  ELSE Return(code_levels[code][code_level])

\* SDMXMetadata.description_by_code_level
description_by_code_level(code, code_level, trim) ==
  IF Len(code_level) = 0 THEN Return(code_level)
  ELSE IF is_primary_measure_code(code) THEN Return(code_level)
  ELSE IF code \notin DOMAIN code_levels THEN Raise
  ELSE IF code_level \notin DOMAIN code_levels[code] THEN Raise
  ELSE IF trim THEN Return(Strip(code_levels[code][code_level]))
  ELSE Return(code_levels[code][code_level])

Calling(op, code, level, trim, name, result) ==
  /\ pc = "ready"
  /\ call.op = "none"
  /\ call' = [op |-> op, code |-> code, level |-> level, trim |-> trim,
              name |-> name, outcome |-> result.outcome, value |-> result.value]
  /\ UNCHANGED <<root, pc, tables, rows_vars>>

CallIsPrimaryMeasureCode ==
  \E code \in QueryCodes :
    Calling("is_primary_measure_code", code, <<>>, FALSE, "",
            Return(is_primary_measure_code(code)))

CallCodes == Calling("codes", "", <<>>, FALSE, "", Return(codes))

CallNameByCode ==
  \E code \in QueryCodes :
    Calling("name_by_code", code, <<>>, FALSE, "", name_by_code(code))

CallCodeByName ==
  \E name \in Names :
    Calling("code_by_name", "", <<>>, FALSE, name, code_by_name(name))

CallCodeLevels == Calling("code_levels", "", <<>>, FALSE, "", Return(code_levels))

CallCodeLevelsByCode ==
  \E code \in QueryCodes :
    Calling("code_levels_by_code", code, <<>>, FALSE, "",
            code_levels_by_code(code))

CallDescriptionByCodeLevel ==
  \E code \in QueryCodes, level \in QueryLevels, trim \in BOOLEAN :
    Calling("description_by_code_level", code, level, trim, "",
            description_by_code_level(code, level, trim))

\* the caller takes the outcome; the instance is unchanged
CallDone ==
  /\ call.op # "none"
  /\ call' = NoCall
  /\ UNCHANGED <<root, pc, tables, rows_vars>>

Next ==
  \/ LoadXml
  \/ LoadPrimaryMeasure
  \/ LoadConcepts
  \/ LoadCodeLevels
  \/ CallIsPrimaryMeasureCode
  \/ CallCodes
  \/ CallNameByCode
  \/ CallCodeByName
  \/ CallCodeLevels
  \/ CallCodeLevelsByCode
  \/ CallDescriptionByCodeLevel
  \/ CallDone

Spec == Init /\ [][Next]_vars

----------------------------------------------------------------------------
(* The raw extractor, sdmx_to_csv.py *)

GNS == <<"{", "g", "}">>

\* the value None
None == "<None>"

Elem(tag, concept, value) == [tag |-> tag, concept |-> concept, value |-> value]

\* the elements iterparse may hand to build_rows: Value elements, ObsValue
\* elements (with and without namespace) and an element of another tag
Elements ==
  {Elem(GNS \o <<"Value">>, c, "1") : c \in {"GEO", "SEX", "OBS_STATUS", "OBS_VALUE"}}
    \cup {Elem(GNS \o <<"Value">>, "GEO", "2")}
    \cup {Elem(GNS \o <<"ObsValue">>, "", v) : v \in {"1", "2"}}
    \cup {Elem(<<"ObsValue">>, "", "2"), Elem(GNS \o <<"Series">>, "", "")}

\* ORDERED_KEY_DICT[k] = 1: a new key goes last, a known key keeps its place
OrderedSet(keys, k) == IF k \in Range(keys) THEN keys ELSE Append(keys, k)

\* append_row: row['OBS_VALUE'] = value; row_array.append(row)
append_row(rows, r, value) == Append(rows, Put(r, "OBS_VALUE", value))

\* a loop body that keeps the row after an OBS_STATUS emission
ParseElemKeepingRow(st, elem) ==
  LET tag_name == RemoveXmlNamespace(elem.tag)
      afterValue ==
        IF tag_name = <<"Value">>
          THEN LET r == Put(st.row, elem.concept, elem.value)
                   k == OrderedSet(st.keys, elem.concept)
               IN  IF elem.concept = "OBS_STATUS"
                     THEN [row |-> Put(r, "OBS_VALUE", None),
                           row_array |-> append_row(st.row_array, r, None),
                           keys |-> k]
                     ELSE [row |-> r, row_array |-> st.row_array, keys |-> k]
          ELSE st
  IN  IF tag_name = <<"ObsValue">>
        THEN [row |-> EmptyDict,
              row_array |-> append_row(afterValue.row_array, afterValue.row,
                                       elem.value),
              keys |-> afterValue.keys]
        ELSE afterValue

\* the body of the loop of build_rows for one element; st holds row,
\* row_array and ORDERED_KEY_DICT
ParseElem(st, elem) ==
  LET tag_name == RemoveXmlNamespace(elem.tag)
      afterValue ==
        IF tag_name = <<"Value">>
          THEN LET r == Put(st.row, elem.concept, elem.value)
                   k == OrderedSet(st.keys, elem.concept)
               IN  IF elem.concept = "OBS_STATUS"
                     THEN [row |-> EmptyDict,
                           row_array |-> append_row(st.row_array, r, None),
                           keys |-> k]
                     ELSE [row |-> r, row_array |-> st.row_array, keys |-> k]
          ELSE st
  IN  IF tag_name = <<"ObsValue">>
        THEN [row |-> EmptyDict,
              row_array |-> append_row(afterValue.row_array, afterValue.row,
                                       elem.value),
              keys |-> afterValue.keys]
        ELSE afterValue

InitRows ==
  /\ root = Document(<<>>, FALSE, GoodConcepts, GoodCodeLists)
  /\ pc = "absent"
  /\ primary_measure_code = Unset
  /\ concept_codes = <<>>
  /\ concept_codelist_keys = <<>>
  /\ concept_code_to_codelist_key = EmptyDict
  /\ codelist_key_to_concept_code = EmptyDict
  /\ concept_code_to_name = EmptyDict
  /\ name_to_concept_code = EmptyDict
  /\ code_levels = EmptyDict
  /\ call = NoCall
  /\ elems = <<>>
  /\ rpc = "build"
  /\ row = EmptyDict
  /\ row_array = <<>>
  /\ ORDERED_KEY_DICT = <<>>
  /\ output = NoOutput

metadata_vars == <<root, pc, tables, call>>

\* build_rows: one turn of the loop over iterparse
BuildRow ==
  /\ rpc = "build"
  /\ Len(elems) < MaxElems
  /\ \E elem \in Elements :
       LET st == ParseElem([row |-> row, row_array |-> row_array,
                            keys |-> ORDERED_KEY_DICT], elem)
       IN  /\ elems' = Append(elems, elem)
           /\ row' = st.row
           /\ row_array' = st.row_array
           /\ ORDERED_KEY_DICT' = st.keys
  /\ UNCHANGED <<rpc, output, metadata_vars>>

\* build_rows returns at the end of the input
EndOfInput ==
  /\ rpc = "build"
  /\ rpc' = "write"
  /\ UNCHANGED <<elems, row, row_array, ORDERED_KEY_DICT, output, metadata_vars>>

\* write_rows; DictWriter raises ValueError on a row key that is no fieldname
write_rows(keys, rows) ==
  LET fieldnames == OrderedSet(keys, "OBS_VALUE")
  IN  IF \A i \in DOMAIN rows : DOMAIN rows[i] \subseteq Range(fieldnames)
        THEN [status |-> "written", fieldnames |-> fieldnames, rows |-> rows]
        ELSE [status |-> "raise", fieldnames |-> fieldnames, rows |-> <<>>]

WriteRows ==
  /\ rpc = "write"
  /\ ORDERED_KEY_DICT' = OrderedSet(ORDERED_KEY_DICT, "OBS_VALUE")
  /\ output' = write_rows(ORDERED_KEY_DICT, row_array)
  /\ rpc' = "done"
  /\ UNCHANGED <<elems, row, row_array, metadata_vars>>

NextRows ==
  \/ BuildRow
  \/ EndOfInput
  \/ WriteRows

SpecRows == InitRows /\ [][NextRows]_vars

----------------------------------------------------------------------------
(* Facts of the structure document, read off the document itself *)

IsPrimaryElement(e) == RemoveXmlNamespace(e.tag) = <<"PrimaryMeasure">>

HasPrimaryMeasure(r) ==
  r.primary_outside \/ \E i \in DOMAIN r.key_family : IsPrimaryElement(r.key_family[i])

\* the conceptRef of the document's PrimaryMeasure element
PrimaryRef(r) ==
  IF r.primary_outside THEN "OBS_VALUE"
  ELSE (CHOOSE e \in Range(r.key_family) : IsPrimaryElement(e)).conceptRef

\* the concept codes referenced in the KeyFamily
RefCodes(r) == {e.conceptRef : e \in Range(r.key_family)}

\* the codelist keys a concept carries in the KeyFamily
KeysOf(r, c) ==
  {e.codelist : e \in {x \in Range(r.key_family) : x.conceptRef = c /\ x.has_codelist}}

ConceptNamed(r, c) == r.concepts[c].present /\ r.concepts[c].has_name

DuplicateRefs(r) ==
  \E i, j \in DOMAIN r.key_family :
    i # j /\ r.key_family[i].conceptRef = r.key_family[j].conceptRef

\* a Code without Description in a CodeList some reference names
UndescribedCode(r) ==
  \E e \in Range(r.key_family) :
    /\ e.has_codelist
    /\ r.codelists[e.codelist].present
    /\ \E c \in Range(r.codelists[e.codelist].codes) : ~c.has_description

UniqueValues(cs) ==
  \A i, j \in DOMAIN cs : cs[i].value = cs[j].value => i = j

----------------------------------------------------------------------------
(* Claims about the metadata model *)

\* C1: in a constructed model, for every concept C of the key family that
\* carries a codelist key K whose CodeList exists, and every Code (V, D) of
\* that CodeList, description_by_code_level(C, V, trim=False) returns D.
\* Stated for the cases where no passthrough applies (C is not the primary
\* measure, V is not empty) and the CodeList's values are unique.
C1_DescriptionOfEveryCode ==
  pc = "ready" =>
    \A e \in Range(root.key_family) :
      (/\ e.has_codelist
       /\ e.conceptRef # primary_measure_code
       /\ root.codelists[e.codelist].present
       /\ UniqueValues(root.codelists[e.codelist].codes))
      => \A c \in Range(root.codelists[e.codelist].codes) :
           description_by_code_level(e.conceptRef, c.value, FALSE)
             = Return(c.description)

\* C2: code_levels_by_code returns None, without raising, for the primary
\* measure and for a discovered concept without codelist (no codelist
\* attribute, or a key matching no CodeList); it raises only for a code that
\* was not discovered.
C2_AbsentCodelistIsNone ==
  call.op = "code_levels_by_code" =>
    /\ (\/ call.code = primary_measure_code
        \/ /\ call.code \in Range(concept_codes)
           /\ \A k \in KeysOf(root, call.code) : ~root.codelists[k].present)
       => call.outcome = "none"
    /\ call.outcome = "raise" => call.code \notin Range(concept_codes)

\* C3: description_by_code_level returns the value unchanged, and does not
\* raise, when the value is empty (any code) or the code is the primary
\* measure (any value, also one its codelist contains), with or without trim.
C3_Passthrough ==
  (/\ call.op = "description_by_code_level"
   /\ (Len(call.level) = 0 \/ call.code = primary_measure_code))
  => call.outcome = "return" /\ call.value = call.level

C3_Witness ==
  /\ call.op = "description_by_code_level"
  /\ call.trim
  /\ call.code = primary_measure_code
  /\ call.code \in DOMAIN code_levels
  /\ call.level \in DOMAIN code_levels[call.code]
  /\ call.value = call.level

\* C4: for a non-empty value and a code that is not the primary measure,
\* description_by_code_level raises exactly when the code has no recorded
\* codelist or the value is no key of it; a concept whose codelist keys match
\* no CodeList does not fail construction, and every such lookup on it raises.
C4_UnknownCodeValue ==
  /\ (/\ call.op = "description_by_code_level"
      /\ Len(call.level) > 0
      /\ call.code # primary_measure_code)
     => /\ call.outcome = "raise"
           <=> (\/ call.code \notin DOMAIN code_levels
                \/ call.level \notin DOMAIN code_levels[call.code])
        /\ (\A k \in KeysOf(root, call.code) : ~root.codelists[k].present)
           => call.outcome = "raise"
  /\ pc = "failed" =>
       \/ ~HasPrimaryMeasure(root)
       \/ \E c \in RefCodes(root) : ~ConceptNamed(root, c)
       \/ UndescribedCode(root)

C4_Witness ==
  /\ pc = "ready"
  /\ call.op = "description_by_code_level"
  /\ call.outcome = "raise"
  /\ call.code \in Range(concept_codes)
  /\ KeysOf(root, call.code) # {}
  /\ \A k \in KeysOf(root, call.code) : ~root.codelists[k].present

\* C5: in a constructed model, for every discovered concept code c,
\* name_by_code(code_by_name(name_by_code(c))) = name_by_code(c) and no lookup
\* raises, also when codes share a name or a code is referenced twice.
C5_NameRoundTrip ==
  pc = "ready" =>
    \A c \in Range(codes) :
      /\ name_by_code(c).outcome = "return"
      /\ code_by_name(name_by_code(c).value).outcome = "return"
      /\ name_by_code(code_by_name(name_by_code(c).value).value)
           = name_by_code(c)

C5_Witness ==
  /\ pc = "ready"
  /\ DuplicateRefs(root)
  /\ \E c, d \in Range(codes) :
       c # d /\ concept_code_to_name[c] = concept_code_to_name[d]
  /\ call.op = "code_by_name"
  /\ call.outcome = "return"

\* C6: construction rejects a document whose key family references the same
\* concept code more than once.
C6_DuplicateRejected ==
  pc \in {"concepts", "ready"} => ~DuplicateRefs(root)

\* C7: without a PrimaryMeasure element, or with a referenced concept that has
\* no Concept definition or no Name, construction never completes; a query is
\* answered only by an instance whose three passes completed.
C7_AllOrNothing ==
  /\ (\/ ~HasPrimaryMeasure(root)
      \/ \E c \in RefCodes(root) : ~ConceptNamed(root, c))
     => pc \notin {"concepts", "ready"} /\ call.op = "none"
  /\ call.op # "none" =>
       /\ pc = "ready"
       /\ primary_measure_code = PrimaryRef(root)
       /\ Range(concept_codes) = RefCodes(root)
       /\ DOMAIN concept_code_to_name = RefCodes(root)
       /\ \A c \in RefCodes(root) :
            concept_code_to_name[c] = root.concepts[c].name
       /\ \A k \in Range(concept_codelist_keys) :
            CodeListTruthy(root.codelists[k])
              => codelist_key_to_concept_code[k] \in DOMAIN code_levels

C7_Witness ==
  /\ pc = "failed"
  /\ HasPrimaryMeasure(root)
  /\ \E c \in RefCodes(root) : root.concepts[c].present /\ ~ConceptNamed(root, c)

\* C8 as stated: in a constructed model is_primary_measure_code is true for
\* exactly one distinct code among codes().
C8_ExactlyOneDiscovered ==
  pc = "ready" =>
    Cardinality({c \in Range(codes) : is_primary_measure_code(c)}) = 1

\* C8 amended: is_primary_measure_code is true of the PrimaryMeasure element's
\* conceptRef only; among codes() that is one code when the key family
\* references it (the PrimaryMeasure element lies inside the KeyFamily, or
\* another element there names the concept), and none otherwise.
C8_AtMostOneDiscovered ==
  pc = "ready" =>
    /\ \A c \in QueryCodes : is_primary_measure_code(c) <=> c = PrimaryRef(root)
    /\ {c \in Range(codes) : is_primary_measure_code(c)}
         = RefCodes(root) \cap {PrimaryRef(root)}

C8_Witness ==
  /\ pc = "ready"
  /\ \E e \in Range(root.key_family) : IsPrimaryElement(e)
  /\ call.op = "is_primary_measure_code"
  /\ call.value = TRUE

\* C9: a non-primary concept whose codelist key matches a CodeList without
\* Code entries gets an empty mapping, which code_levels_by_code returns.
C9_EmptyCodelistRecorded ==
  pc = "ready" =>
    \A e \in Range(root.key_family) :
      (/\ e.has_codelist
       /\ e.conceptRef # primary_measure_code
       /\ root.codelists[e.codelist].present
       /\ root.codelists[e.codelist].codes = <<>>)
      => /\ e.conceptRef \in DOMAIN code_levels
         /\ code_levels_by_code(e.conceptRef) = Return(EmptyDict)

----------------------------------------------------------------------------
(* Claims about the raw extractor *)

IsValue(e) == RemoveXmlNamespace(e.tag) = <<"Value">>

\* the elements at which the claim has a row emitted
IsEmission(e) ==
  \/ RemoveXmlNamespace(e.tag) = <<"ObsValue">>
  \/ IsValue(e) /\ e.concept = "OBS_STATUS"

Emissions == {i \in DOMAIN elems : IsEmission(elems[i])}

\* the index of the k-th emission
EmissionAt(k) ==
  CHOOSE i \in Emissions : Cardinality({j \in Emissions : j <= i}) = k

\* the Value elements read after the emission before index p, up to p
Segment(p) ==
  {i \in 1..p : /\ IsValue(elems[i])
                /\ \A j \in Emissions : j < p => j < i}

\* the OBS_VALUE of the row emitted at index p
EmittedValue(p) == IF IsValue(elems[p]) THEN None ELSE elems[p].value

Pairs(d) == {<<k, d[k]>> : k \in DOMAIN d}

RowsAtEmissions ==
  /\ Len(row_array) = Cardinality(Emissions)
  /\ (elems # <<>> /\ IsEmission(elems[Len(elems)])) => row = EmptyDict
  /\ Pairs(row) \subseteq
       {<<elems[i].concept, elems[i].value>> : i \in Segment(Len(elems))}
  /\ rpc = "done" =>
       /\ output.status = "written"
       /\ output.rows = row_array
       /\ \A k \in DOMAIN output.rows :
            DOMAIN output.rows[k] \subseteq Range(output.fieldnames)

\* C10 as stated: a row is emitted exactly at each ObsValue and each Value of
\* concept OBS_STATUS; every row holds exactly the concept/value pairs of the
\* Value elements read since the previous emission plus OBS_VALUE; the
\* accumulator is empty after an emission; every row key is a header field.
C10_RowsHoldEveryPair ==
  /\ RowsAtEmissions
  /\ \A k \in DOMAIN row_array :
       Pairs(row_array[k]) =
         {<<elems[i].concept, elems[i].value>> : i \in Segment(EmissionAt(k))}
           \cup {<<"OBS_VALUE", EmittedValue(EmissionAt(k))>>}

\* C10 amended: every row holds, for each concept of the Value elements read
\* since the previous emission, the value of the last of them (a later Value
\* of a concept replaces an earlier one), and OBS_VALUE is the emission's
\* value (it replaces a Value of concept OBS_VALUE).
C10_RowsHoldLastPair ==
  /\ RowsAtEmissions
  /\ \A k \in DOMAIN row_array :
       LET p == EmissionAt(k)
           seg == Segment(p)
       IN  /\ DOMAIN row_array[k] =
                {elems[i].concept : i \in seg} \cup {"OBS_VALUE"}
           /\ row_array[k]["OBS_VALUE"] = EmittedValue(p)
           /\ \A i \in seg :
                (/\ elems[i].concept # "OBS_VALUE"
                 /\ \A j \in seg : elems[j].concept = elems[i].concept => j <= i)
                => row_array[k][elems[i].concept] = elems[i].value

C10_Witness ==
  /\ rpc = "done"
  /\ output.status = "written"
  /\ Len(row_array) = 2
  /\ row_array[1]["OBS_VALUE"] = None
  /\ "GEO" \in DOMAIN row_array[2]
  /\ \E i, j \in Segment(EmissionAt(2)) :
       i # j /\ elems[i].concept = elems[j].concept

====
